---- MODULE Spec2Model ----
(***************************************************************************)
(* Model of the evaluation harness of tableau-mcp (src/evaluation):        *)
(*   test_loader.py             BirdMiniTestLoader.load_test_cases         *)
(*   mcp_tableau_client.py      TableauMCPClient.query_datasource          *)
(*   run_limited_evaluation.py  TableauMCPEvaluator                        *)
(*                                                                         *)
(* Text fields that are only copied through (question, evidence, the SQL   *)
(* text itself, trace ids, wall-clock durations and ISO timestamps) carry  *)
(* no control flow and are left out of the records.  Of the files written  *)
(* by save_results and save_summary the latest_*.json aliases and the      *)
(* timestamped results file written last are state: the clock never goes   *)
(* back, so an older timestamped file is never written again.              *)
(***************************************************************************)
EXTENDS Integers, Sequences, FiniteSets, TLC

VARIABLES
    disk,             \* data_path: for each candidate corpus file, whether it exists and its records
    ld_args,          \* arguments of a direct call of load_test_cases
    ld_out,           \* what that call did: files probed, file opened, error raised or cases returned
    pc,               \* position of run_evaluation
    request,          \* arguments of the current run_evaluation call
    exc,              \* exception that left the last run_evaluation call, if any
    test_cases,       \* local test_cases of run_evaluation
    idx,              \* loop index i of enumerate(test_cases)
    results,          \* self.results: the outcome log
    hist,             \* history: for each recorded outcome, what the invocation met
    events,           \* history of the invocation in flight
    result_data,      \* result_data of the query_datasource call in flight
    pending,          \* exception unwinding through the async with block, if any
    latest_results,   \* content of latest_results.json
    summary,          \* value returned by the last generate_summary
    latest_summary,   \* content of latest_summary.json
    runs,             \* number of run_evaluation calls made on this evaluator
    stamped,          \* the tableau_mcp_results_<timestamp>.json written last: its content,
                      \* the run that wrote it and the run whose file it replaced
    same_second,      \* the clock still shows the second of the last save_results call
    env,              \* what this evaluator's surroundings produce: the str() of the
                      \* faults raised and the final output of completed agent runs
    ex_text,          \* answer text of a direct run of the payload extraction
    ex_out            \* what that extraction left in result_data["vds_query"]

vars == <<disk, ld_args, ld_out, pc, request, exc, test_cases, idx, results, hist, events,
          result_data, pending, latest_results, summary, latest_summary, runs, stamped,
          same_second, env, ex_text, ex_out>>

(***************************************************************************)
(* Bounds of the model.                                                    *)
(***************************************************************************)
MaxDbs == 2          \* longest databases list passed to load_test_cases
MaxLimit == 2        \* largest per-database limit passed to load_test_cases
MaxRuns == 2         \* run_evaluation calls made on one evaluator
MaxText == 6         \* longest answer text given to the payload extraction

(***************************************************************************)
(* Python values.                                                          *)
(***************************************************************************)
None == [some |-> FALSE]
Some(x) == [some |-> TRUE, val |-> x]

\* truth value of an Optional[List]: None and [] are both falsy
TruthyList(o) == o.some /\ Len(o.val) > 0

\* truth value of an Optional[int]: None and 0 are both falsy
TruthyInt(o) == o.some /\ o.val # 0

\* x in lst
InList(x, lst) == \E i \in DOMAIN lst : lst[i] = x

\* lst[:n] for n >= 0
Slice(lst, n) == SubSeq(lst, 1, IF n < Len(lst) THEN n ELSE Len(lst))

\* all sequences over S of length at most n
RECURSIVE SeqsUpTo(_, _)
SeqsUpTo(S, n) ==
    IF n = 0 THEN {<<>>}
    ELSE LET shorter == SeqsUpTo(S, n - 1)
         IN  shorter \cup {Append(s, x) : s \in shorter, x \in S}

(***************************************************************************)
(* test_loader.py                                                          *)
(***************************************************************************)
SUPPORTED_DATABASES == {"california_schools", "card_games", "financial"}

\* list(self.SUPPORTED_DATABASES): the iteration order of a set of str depends
\* on the process's hash seed, so any order of the three names can come out
SupportedOrders ==
    {o \in SeqsUpTo(SUPPORTED_DATABASES, 3) :
        Len(o) = 3 /\ {o[i] : i \in 1..3} = SUPPORTED_DATABASES}

\* test_files, in the order the loop tries them
test_files == <<"mini_dev_sqlite.json", "mini_dev_postgresql.json", "mini_dev_mysql.json">>

\* TestCase(question_id=item["question_id"], db_id=item["db_id"], sql=item["SQL"], ...)
TestCase(item) ==
    [question_id |-> item.question_id, db_id |-> item.db_id,
     sql |-> item.SQL, difficulty |-> item.difficulty]

\* TestCase.to_dict
to_dict(tc) ==
    [question_id |-> tc.question_id, db_id |-> tc.db_id,
     sql |-> tc.sql, difficulty |-> tc.difficulty]

\* databases = databases or list(self.SUPPORTED_DATABASES)
EffectiveDatabases(databases, order) ==
    IF TruthyList(databases) THEN databases.val ELSE order

\* mutant of InvalidDbs: only the first requested database is validated
InvalidDbs_FirstOnly(dbs) ==
    IF dbs = <<>> THEN {} ELSE {dbs[1]} \ SUPPORTED_DATABASES

\* invalid_dbs = set(databases) - self.SUPPORTED_DATABASES
InvalidDbs(dbs) == {dbs[i] : i \in DOMAIN dbs} \ SUPPORTED_DATABASES

\* mutant of ProbeFiles: the break is missing, so every candidate is probed and
\* every existing one opened
RECURSIVE ProbeFiles_NoBreak(_, _, _)
ProbeFiles_NoBreak(d, k, probed) ==
    IF k > Len(test_files) THEN [probed |-> probed, opened |-> <<>>]
    ELSE LET rest == ProbeFiles_NoBreak(d, k + 1, Append(probed, test_files[k]))
         IN  IF d[test_files[k]].exists
             THEN [probed |-> rest.probed, opened |-> <<test_files[k]>> \o rest.opened]
             ELSE rest

\* the for loop over test_files: exists() is asked of the files in order up to
\* and including the first that exists; only that one is opened
RECURSIVE ProbeFiles(_, _, _)
ProbeFiles(d, k, probed) ==
    IF k > Len(test_files) THEN [probed |-> probed, opened |-> <<>>]
    ELSE IF d[test_files[k]].exists
         THEN [probed |-> Append(probed, test_files[k]), opened |-> <<test_files[k]>>]
         ELSE ProbeFiles(d, k + 1, Append(probed, test_files[k]))

\* mutant of Keeps: the difficulty test is missing
Keeps_IgnoreDifficulty(item, dbs, difficulty_filter) == InList(item.db_id, dbs)

\* the two continue tests of the record loop
Keeps(item, dbs, difficulty_filter) ==
    /\ InList(item.db_id, dbs)
    /\ ~(TruthyList(difficulty_filter) /\ ~InList(item.difficulty, difficulty_filter.val))

\* the record loop: filter and convert, in file order
RECURSIVE FilterItems(_, _, _)
FilterItems(data, dbs, difficulty_filter) ==
    IF data = <<>> THEN <<>>
    ELSE LET rest == FilterItems(Tail(data), dbs, difficulty_filter)
         IN  IF Keeps(Head(data), dbs, difficulty_filter)
             THEN <<TestCase(Head(data))>> \o rest
             ELSE rest

\* db_cases = [tc for tc in test_cases if tc.db_id == db]
RECURSIVE DbCases(_, _)
DbCases(cases, db) ==
    IF cases = <<>> THEN <<>>
    ELSE IF Head(cases).db_id = db
         THEN <<Head(cases)>> \o DbCases(Tail(cases), db)
         ELSE DbCases(Tail(cases), db)

\* for db in databases: limited_cases.extend(db_cases[:limit])
RECURSIVE LimitedCases(_, _, _)
LimitedCases(cases, dbs, limit) ==
    IF dbs = <<>> THEN <<>>
    ELSE Slice(DbCases(cases, Head(dbs)), limit) \o LimitedCases(cases, Tail(dbs), limit)

\* if limit: ... test_cases = limited_cases
ApplyLimit(cases, dbs, limit) ==
    IF TruthyInt(limit) THEN LimitedCases(cases, dbs, limit.val) ELSE cases

\* load_test_cases: raised is "" when the call returns
load_test_cases(d, databases, difficulty_filter, limit, order) ==
    LET dbs == EffectiveDatabases(databases, order)
    IN  IF InvalidDbs(dbs) # {}
        THEN [raised |-> "Unsupported databases", cases |-> <<>>,
              probed |-> <<>>, opened |-> <<>>]
        ELSE LET io    == ProbeFiles(d, 1, <<>>)
                 found == IF io.opened = <<>> THEN <<>>
                          ELSE FilterItems(d[io.opened[1]].data, dbs, difficulty_filter)
             IN  IF found = <<>>
                 THEN [raised |-> "No test cases found", cases |-> <<>>,
                       probed |-> io.probed, opened |-> io.opened]
                 ELSE [raised |-> "", cases |-> ApplyLimit(found, dbs, limit),
                       probed |-> io.probed, opened |-> io.opened]

(***************************************************************************)
(* Corpus files the model puts on disk.                                    *)
(***************************************************************************)
Item(id, db, diff) == [question_id |-> id, db_id |-> db, SQL |-> "SELECT", difficulty |-> diff]

CorpusA ==
    << Item(1, "california_schools", "simple"),
       Item(2, "card_games", "simple"),
       Item(3, "california_schools", "moderate"),
       Item(4, "toxicology", "simple"),
       Item(5, "card_games", "challenging"),
       Item(6, "california_schools", "simple") >>

CorpusB ==
    << Item(7, "financial", "moderate"),
       Item(8, "card_games", "moderate") >>

NoFile == [exists |-> FALSE, data |-> <<>>]
File(data) == [exists |-> TRUE, data |-> data]

FileStates == {NoFile, File(CorpusA), File(CorpusB)}
Disks == [{test_files[k] : k \in DOMAIN test_files} -> FileStates]

\* arguments a caller can pass
DbNames == {"california_schools", "card_games", "financial", "toxicology"}
DatabaseArgs == {None} \cup {Some(s) : s \in SeqsUpTo(DbNames, MaxDbs)}
DifficultyArgs ==
    {None, Some(<<>>), Some(<<"simple">>), Some(<<"moderate">>), Some(<<"simple", "moderate">>)}
LimitArgs == {None} \cup {Some(n) : n \in 0..MaxLimit}

\* no agent is run
NoEnv == [fault_text |-> "", final_output |-> <<>>]

\* no extraction has run
NotExtracted == [done |-> FALSE, vds_json_str |-> None, vds_query |-> None]

NoCall == [raised |-> "not called", cases |-> <<>>, probed |-> <<>>, opened |-> <<>>]
NoRequest == [databases |-> None, difficulty_filter |-> None, limit |-> None,
              save_intermediate |-> FALSE]

\* the evaluator after __init__, before any run
EvaluatorInit ==
    /\ pc = "idle"
    /\ request = NoRequest
    /\ exc = None
    /\ test_cases = <<>>
    /\ idx = 0
    /\ results = <<>>
    /\ hist = <<>>
    /\ events = <<>>
    /\ result_data = None
    /\ pending = None
    /\ latest_results = None
    /\ summary = None
    /\ latest_summary = None
    /\ runs = 0
    /\ stamped = None
    /\ same_second = FALSE

(***************************************************************************)
(* SpecLoad: direct calls of BirdMiniTestLoader.load_test_cases.           *)
(***************************************************************************)
InitLoad ==
    /\ disk \in Disks
    /\ ld_args \in [databases : DatabaseArgs, difficulty_filter : DifficultyArgs,
                    limit : LimitArgs]
    /\ ld_out = NoCall
    /\ EvaluatorInit
    /\ env = NoEnv
    /\ ex_text = <<>>
    /\ ex_out = NotExtracted

LoadCall ==
    /\ ld_out = NoCall
    /\ \E order \in SupportedOrders :
          ld_out' = load_test_cases(disk, ld_args.databases, ld_args.difficulty_filter,
                                    ld_args.limit, order)
    /\ UNCHANGED <<disk, ld_args, pc, request, exc, test_cases, idx, results, hist, events,
                   result_data, pending, latest_results, summary, latest_summary, runs,
                   stamped, same_second, env, ex_text, ex_out>>

NextLoad == LoadCall

SpecLoad == InitLoad /\ [][NextLoad]_vars

(***************************************************************************)
(* mcp_tableau_client.py: TableauMCPClient.query_datasource                *)
(***************************************************************************)
TimeoutMessage == "Query timed out after 60 seconds"

\* str(e) of the faults the environment raises
FaultTexts == {"server fault", ""}

\* result_data as built before the try block
NewResultData == [success |-> FALSE, data |-> None, error |-> None, vds_query |-> None]

(***************************************************************************)
(* Payload extraction, lines 141-165.  A text is a sequence of the         *)
(* characters below; the marker "VDS_QUERY:" is one character of the       *)
(* model, as is a quoted key with its colon.                               *)
(***************************************************************************)
Marker == "VDS_QUERY:"
Open == "{"
Close == "}"
Key == "key"           \* "name": inside an object, a word anywhere else
Space == " "
Chars == {Marker, Open, Close, Key, Space}

\* the answer texts of the model
Texts == SeqsUpTo(Chars, MaxText)

\* s[n:] for a 0-based n
From(s, n) == SubSeq(s, n + 1, Len(s))

\* "VDS_QUERY:" in final_output
HasMarker(text) == InList(Marker, text)

\* final_output.find("VDS_QUERY:") + len("VDS_QUERY:"): the 0-based position
\* just after the first marker
vds_start(text) ==
    CHOOSE n \in 1..Len(text) : text[n] = Marker /\ \A m \in 1..(n - 1) : text[m] # Marker

\* str.strip(): leading and trailing whitespace removed
RECURSIVE LStrip(_)
LStrip(s) == IF s # <<>> /\ Head(s) = Space THEN LStrip(Tail(s)) ELSE s
RECURSIVE RStrip(_)
RStrip(s) ==
    IF s # <<>> /\ s[Len(s)] = Space THEN RStrip(SubSeq(s, 1, Len(s) - 1)) ELSE s
Strip(s) == RStrip(LStrip(s))

\* vds_section = final_output[vds_start:].strip()
vds_section(text) == Strip(From(text, vds_start(text)))

\* mutant of Scan: the scan stops at the first closing brace it meets
RECURSIVE Scan_FirstClose(_, _, _)
Scan_FirstClose(s, p, brace_count) ==
    IF p > Len(s) THEN 0
    ELSE IF s[p] = Close THEN p
    ELSE Scan_FirstClose(s, p + 1, brace_count)

\* mutant of Scan: a scan that runs out of text takes the whole section
RECURSIVE Scan_TakesRest(_, _, _)
Scan_TakesRest(s, p, brace_count) ==
    IF p > Len(s) THEN Len(s)
    ELSE IF s[p] = Open THEN Scan_TakesRest(s, p + 1, brace_count + 1)
    ELSE IF s[p] = Close
         THEN IF brace_count - 1 = 0 THEN p ELSE Scan_TakesRest(s, p + 1, brace_count - 1)
    ELSE Scan_TakesRest(s, p + 1, brace_count)

\* the for loop over enumerate(vds_section), from character p (1-based) with
\* the given brace_count: the value end_pos has after the loop (i + 1 at the
\* break, 0 when the loop runs out of characters)
RECURSIVE Scan(_, _, _)
Scan(s, p, brace_count) ==
    IF p > Len(s) THEN 0
    ELSE IF s[p] = Open THEN Scan(s, p + 1, brace_count + 1)
    ELSE IF s[p] = Close
         THEN IF brace_count - 1 = 0 THEN p ELSE Scan(s, p + 1, brace_count - 1)
    ELSE Scan(s, p + 1, brace_count)

\* first position from p on that holds no whitespace
RECURSIVE SkipSpace(_, _)
SkipSpace(s, p) == IF p <= Len(s) /\ s[p] = Space THEN SkipSpace(s, p + 1) ELSE p

\* json.loads of an object that starts at position p: an object is a pair of
\* braces around nothing or around one key and the object that is its value,
\* whitespace allowed between the parts.  ok tells whether it parsed, val is
\* the dict (a sequence of key/value members), next the position after it, at
\* the position json.JSONDecodeError reports.
RECURSIVE ParseObject(_, _)
ParseObject(s, p) ==
    LET fail(n) == [ok |-> FALSE, val |-> <<>>, next |-> n, at |-> n]
    IN  IF p > Len(s) \/ s[p] # Open THEN fail(p)
        ELSE LET q == SkipSpace(s, p + 1)
             IN  IF q > Len(s) THEN fail(q)
                 ELSE IF s[q] = Close
                      THEN [ok |-> TRUE, val |-> <<>>, next |-> q + 1, at |-> 0]
                 ELSE IF s[q] # Key THEN fail(q)
                 ELSE LET inner == ParseObject(s, SkipSpace(s, q + 1))
                          t     == SkipSpace(s, inner.next)
                      IN  IF ~inner.ok THEN inner
                          ELSE IF t <= Len(s) /\ s[t] = Close
                               THEN [ok |-> TRUE,
                                     val |-> <<[key |-> Key, value |-> inner.val]>>,
                                     next |-> t + 1, at |-> 0]
                          ELSE fail(t)

\* json.loads(vds_json_str): the whole string must be one object
loads(s) ==
    LET got == ParseObject(s, SkipSpace(s, 1))
        end == SkipSpace(s, got.next)
    IN  IF got.ok /\ end <= Len(s)
        THEN [ok |-> FALSE, val |-> <<>>, next |-> end, at |-> end]
        ELSE got

\* values of result_data["vds_query"]: a parsed dict, or the str built in the
\* except clause from the decoder's message
Dict(val) == [some |-> TRUE, type |-> "dict", val |-> val]
ParseErrorStr(at) == [some |-> TRUE, type |-> "str", val |-> <<"Parse error: ", at>>]

\* the local vds_json_str after the scan: vds_section[:end_pos], or nothing
\* when one of the tests before its assignment fails
vds_json_str(final_output) ==
    IF ~(final_output # <<>> /\ HasMarker(final_output)) THEN None
    ELSE LET section == vds_section(final_output)
         IN  IF ~(section # <<>> /\ Head(section) = Open) THEN None
             ELSE LET end_pos == Scan(section, 1, 0)
                  IN  IF end_pos > 0 THEN Some(Slice(section, end_pos)) ELSE None

\* the payload extraction: the value result_data["vds_query"] has after it
ExtractVdsQuery(final_output) ==
    LET str == vds_json_str(final_output)
    IN  IF ~str.some THEN None
        ELSE LET parsed == loads(str.val)
             IN  IF parsed.ok THEN Dict(parsed.val) ELSE ParseErrorStr(parsed.at)

\* result_data["success"] = True; result_data["data"] = result.final_output;
\* then the payload extraction
Completed(rd, final_output) ==
    [rd EXCEPT !.success = TRUE, !.data = Some(final_output),
               !.vds_query = ExtractVdsQuery(final_output)]

\* result.final_output of a completed agent run: an answer whose payload
\* parses, and one whose payload does not
GoodAnswer == <<Key, Marker, Space, Open, Key, Open, Close, Close>>
BadAnswer == <<Key, Marker, Space, Open, Open, Close, Close>>
FinalOutputs == {GoodAnswer, BadAnswer}

\* the surroundings an evaluator can find itself in: faults that carry a
\* message and answers with a well-formed payload, or faults without a message
\* and answers with a malformed payload
Envs ==
    {[fault_text |-> "server fault", final_output |-> GoodAnswer],
     [fault_text |-> "", final_output |-> BadAnswer]}

(***************************************************************************)
(* SpecExtract: the payload extraction run on one answer text.             *)
(***************************************************************************)
InitExtract ==
    /\ disk \in {[f \in {test_files[k] : k \in DOMAIN test_files} |-> NoFile]}
    /\ ld_args = [databases |-> None, difficulty_filter |-> None, limit |-> None]
    /\ ld_out = NoCall
    /\ EvaluatorInit
    /\ env = NoEnv
    /\ ex_text \in Texts
    /\ ex_out = NotExtracted

ExtractCall ==
    /\ ~ex_out.done
    /\ ex_out' = [done |-> TRUE, vds_json_str |-> vds_json_str(ex_text),
                  vds_query |-> ExtractVdsQuery(ex_text)]
    /\ UNCHANGED <<disk, ld_args, ld_out, pc, request, exc, test_cases, idx, results, hist,
                   events, result_data, pending, latest_results, summary, latest_summary,
                   runs, stamped, same_second, env, ex_text>>

NextExtract == ExtractCall

SpecExtract == InitExtract /\ [][NextExtract]_vars

\* the except clauses: asyncio.TimeoutError first, any other Exception next
Caught(rd, e) ==
    IF e.type = "TimeoutError"
    THEN [rd EXCEPT !.error = Some(TimeoutMessage)]
    ELSE [rd EXCEPT !.error = Some(e.text)]

TimeoutError == [type |-> "TimeoutError", text |-> ""]
Fault(text) == [type |-> "Exception", text |-> text]

(***************************************************************************)
(* run_limited_evaluation.py: TableauMCPEvaluator                          *)
(***************************************************************************)
\* run_single_test, try branch: the result built from what query_datasource returned
ResultOf(test_case, mcp_result) ==
    [test_case  |-> to_dict(test_case),
     mcp_result |-> Some(mcp_result),
     status     |-> IF mcp_result.success THEN "success" ELSE "failed",
     error      |-> mcp_result.error,
     vds_query  |-> mcp_result.vds_query]

\* run_single_test, except branch: query_datasource raised e
ErrorResultOf(test_case, e) ==
    [test_case  |-> to_dict(test_case),
     mcp_result |-> None,
     status     |-> "error",
     error      |-> Some(e.text)]

\* number of entries of log whose status is st
RECURSIVE CountStatus(_, _)
CountStatus(log, st) ==
    IF log = <<>> THEN 0
    ELSE (IF Head(log).status = st THEN 1 ELSE 0) + CountStatus(Tail(log), st)

\* the grouping loop of generate_summary
RECURSIVE ByDatabase(_, _)
ByDatabase(log, by_database) ==
    IF log = <<>> THEN by_database
    ELSE LET db    == Head(log).test_case.db_id
             st    == Head(log).status
             entry == IF db \in DOMAIN by_database THEN by_database[db]
                      ELSE [total |-> 0, success |-> 0, failed |-> 0, error |-> 0]
             bumped == [[entry EXCEPT !.total = @ + 1] EXCEPT ![st] = @ + 1]
         IN  ByDatabase(Tail(log),
                        [d \in DOMAIN by_database \cup {db} |->
                            IF d = db THEN bumped ELSE by_database[d]])

\* mutant of generate_summary: failed counts every outcome that is not a success
generate_summary_DoubleCount(log) ==
    LET total_tests      == Len(log)
        successful_tests == CountStatus(log, "success")
    IN  [total_tests  |-> total_tests,
         successful   |-> successful_tests,
         failed       |-> total_tests - successful_tests,
         errors       |-> CountStatus(log, "error"),
         success_rate |-> IF total_tests > 0
                          THEN [num |-> successful_tests, den |-> total_tests]
                          ELSE [num |-> 0, den |-> 1],
         by_database  |-> ByDatabase(log, <<>>)]

\* generate_summary; success_rate is the fraction num/den
generate_summary(log) ==
    LET total_tests      == Len(log)
        successful_tests == CountStatus(log, "success")
    IN  [total_tests  |-> total_tests,
         successful   |-> successful_tests,
         failed       |-> CountStatus(log, "failed"),
         errors       |-> CountStatus(log, "error"),
         success_rate |-> IF total_tests > 0
                          THEN [num |-> successful_tests, den |-> total_tests]
                          ELSE [num |-> 0, den |-> 1],
         by_database  |-> ByDatabase(log, <<>>)]

\* requests made of run_evaluation
Request(dbs, diff, lim, save) ==
    [databases |-> dbs, difficulty_filter |-> diff, limit |-> lim, save_intermediate |-> save]

EvalRequests ==
    {Request(Some(<<"california_schools", "card_games">>), Some(<<"simple">>), Some(1), save) :
        save \in BOOLEAN}
    \cup {Request(Some(<<"card_games">>), Some(<<"simple">>), None, TRUE),
          Request(Some(<<"toxicology">>), None, None, TRUE),
          Request(Some(<<"financial">>), None, None, TRUE)}

EvalDisks ==
    {[f \in {test_files[k] : k \in DOMAIN test_files} |->
         IF f = test_files[1] THEN File(CorpusA) ELSE NoFile],
     [f \in {test_files[k] : k \in DOMAIN test_files} |-> NoFile]}

Init ==
    /\ disk \in EvalDisks
    /\ ld_args = [databases |-> None, difficulty_filter |-> None, limit |-> None]
    /\ ld_out = NoCall
    /\ EvaluatorInit
    /\ env \in Envs
    /\ ex_text = <<>>
    /\ ex_out = NotExtracted

\* variables run_evaluation leaves alone
direct_vars == <<disk, ld_args, ld_out, env, ex_text, ex_out>>

\* mutant of RunEvaluation: self.results = [] comes before the load
RunEvaluation_ClearsFirst(req) ==
    /\ pc \in {"idle", "done", "raised"}
    /\ runs < MaxRuns
    /\ runs' = runs + 1
    /\ request' = req
    /\ \E order \in SupportedOrders :
          LET loaded == load_test_cases(disk, req.databases, req.difficulty_filter,
                                        req.limit, order)
          IN  IF loaded.raised # ""
              THEN /\ pc' = "raised"
                   /\ exc' = Some(Fault(loaded.raised))
                   /\ test_cases' = <<>>
                   /\ idx' = 0
                   /\ results' = <<>>
                   /\ hist' = <<>>
              ELSE /\ pc' = IF loaded.cases = <<>> THEN "summarize" ELSE "invoke"
                   /\ exc' = None
                   /\ test_cases' = loaded.cases
                   /\ idx' = 0
                   /\ results' = <<>>
                   /\ hist' = <<>>
    /\ summary' = None
    /\ same_second' \in {same_second, FALSE}
    /\ UNCHANGED <<direct_vars, events, result_data, pending, latest_results,
                   latest_summary, stamped>>

\* mutant of RunEvaluation: the log of the earlier run is kept
RunEvaluation_KeepsLog(req) ==
    /\ pc \in {"idle", "done", "raised"}
    /\ runs < MaxRuns
    /\ runs' = runs + 1
    /\ request' = req
    /\ \E order \in SupportedOrders :
          LET loaded == load_test_cases(disk, req.databases, req.difficulty_filter,
                                        req.limit, order)
          IN  IF loaded.raised # ""
              THEN /\ pc' = "raised"
                   /\ exc' = Some(Fault(loaded.raised))
                   /\ test_cases' = <<>>
                   /\ idx' = 0
              ELSE /\ pc' = IF loaded.cases = <<>> THEN "summarize" ELSE "invoke"
                   /\ exc' = None
                   /\ test_cases' = loaded.cases
                   /\ idx' = 0
    /\ summary' = None
    /\ same_second' \in {same_second, FALSE}
    /\ UNCHANGED <<direct_vars, results, hist, events, result_data, pending,
                   latest_results, latest_summary, stamped>>

\* run_evaluation up to the start of the loop: load, then self.results = [].
\* The clock may have moved on since the last save.  The locals of a call
\* (test_cases, i, summary) exist from its start until it returns or raises.
RunEvaluation(req) ==
    /\ pc \in {"idle", "done", "raised"}
    /\ runs < MaxRuns
    /\ runs' = runs + 1
    /\ request' = req
    /\ \E order \in SupportedOrders :
          LET loaded == load_test_cases(disk, req.databases, req.difficulty_filter,
                                        req.limit, order)
          IN  IF loaded.raised # ""
              THEN /\ pc' = "raised"
                   /\ exc' = Some(Fault(loaded.raised))
                   /\ test_cases' = <<>>
                   /\ idx' = 0
                   /\ UNCHANGED <<results, hist>>
              ELSE /\ pc' = IF loaded.cases = <<>> THEN "summarize" ELSE "invoke"
                   /\ exc' = None
                   /\ test_cases' = loaded.cases
                   /\ idx' = 0
                   /\ results' = <<>>
                   /\ hist' = <<>>
    /\ summary' = None
    /\ same_second' \in {same_second, FALSE}
    /\ UNCHANGED <<direct_vars, events, result_data, pending, latest_results,
                   latest_summary, stamped>>

\* mutant of Record: the pause follows the append at once, without the save
Record_SkipsSave(result, how) ==
    /\ results' = Append(results, result)
    /\ hist' = Append(hist, how)
    /\ events' = <<>>
    /\ result_data' = None
    /\ pending' = None
    /\ pc' = "sleep"
    /\ same_second' \in {same_second, FALSE}
    /\ UNCHANGED <<direct_vars, request, exc, test_cases, idx, latest_results, summary,
                   latest_summary, runs, stamped>>

\* mutant of Record: the result is inserted at the front of the log
Record_Prepends(result, how) ==
    /\ results' = <<result>> \o results
    /\ hist' = <<how>> \o hist
    /\ events' = <<>>
    /\ result_data' = None
    /\ pending' = None
    /\ pc' = IF request.save_intermediate THEN "save" ELSE "sleep"
    /\ same_second' \in {same_second, FALSE}
    /\ UNCHANGED <<direct_vars, request, exc, test_cases, idx, latest_results, summary,
                   latest_summary, runs, stamped>>

\* run_single_test has its result: self.results.append(result), then on to
\* save_results or to the pause.  The invocation may have taken the clock
\* into a new second.
Record(result, how) ==
    /\ results' = Append(results, result)
    /\ hist' = Append(hist, how)
    /\ events' = <<>>
    /\ result_data' = None
    /\ pending' = None
    /\ pc' = IF request.save_intermediate THEN "save" ELSE "sleep"
    /\ same_second' \in {same_second, FALSE}
    /\ UNCHANGED <<direct_vars, request, exc, test_cases, idx, latest_results, summary,
                   latest_summary, runs, stamped>>

\* mutant of QueryRaises: run_single_test lets the exception through, which
\* ends run_evaluation
QueryRaises_Propagates ==
    /\ pc = "invoke"
    /\ pc' = "raised"
    /\ exc' = Some(Fault(env.fault_text))
    /\ UNCHANGED <<direct_vars, request, test_cases, idx, results, hist, events,
                   result_data, pending, latest_results, summary, latest_summary, runs, stamped, same_second>>

\* query_datasource raises before its try block; run_single_test catches it
QueryRaises ==
    /\ pc = "invoke"
    /\ Record(ErrorResultOf(test_cases[idx + 1], Fault(env.fault_text)), <<"raised">>)

\* query_datasource is entered and waits for MCPServerStdio to start
QueryCalled ==
    /\ pc = "invoke"
    /\ pc' = "aenter"
    /\ result_data' = Some(NewResultData)
    /\ events' = <<"called">>
    /\ UNCHANGED <<direct_vars, request, exc, test_cases, idx, results, hist, pending,
                   latest_results, summary, latest_summary, runs, stamped, same_second>>

\* the tool server has started: the agent run begins under wait_for
ServerStarted ==
    /\ pc = "aenter"
    /\ pc' = "run"
    /\ events' = Append(events, "started")
    /\ UNCHANGED <<direct_vars, request, exc, test_cases, idx, results, hist, result_data,
                   pending, latest_results, summary, latest_summary, runs, stamped, same_second>>

\* starting the tool server raises: caught by except Exception
ServerStartFails ==
    /\ pc = "aenter"
    /\ Record(ResultOf(test_cases[idx + 1], Caught(result_data.val, Fault(env.fault_text))),
              Append(events, "start fault"))

\* Runner.run returns within the timeout
AgentCompletes ==
    /\ pc = "run"
    /\ pc' = "aexit"
    /\ result_data' = Some(Completed(result_data.val, env.final_output))
    /\ events' = Append(events, "completed")
    /\ UNCHANGED <<direct_vars, request, exc, test_cases, idx, results, hist, pending,
                   latest_results, summary, latest_summary, runs, stamped, same_second>>

\* wait_for raises asyncio.TimeoutError: the async with block unwinds
AgentTimesOut ==
    /\ pc = "run"
    /\ pc' = "aexit"
    /\ pending' = Some(TimeoutError)
    /\ events' = Append(events, "timeout")
    /\ UNCHANGED <<direct_vars, request, exc, test_cases, idx, results, hist, result_data,
                   latest_results, summary, latest_summary, runs, stamped, same_second>>

\* Runner.run raises: the async with block unwinds
AgentFails ==
    /\ pc = "run"
    /\ pc' = "aexit"
    /\ pending' = Some(Fault(env.fault_text))
    /\ events' = Append(events, "run fault")
    /\ UNCHANGED <<direct_vars, request, exc, test_cases, idx, results, hist, result_data,
                   latest_results, summary, latest_summary, runs, stamped, same_second>>

\* the tool server is shut down; a pending exception reaches the except clauses
ServerStopped ==
    /\ pc = "aexit"
    /\ Record(ResultOf(test_cases[idx + 1],
                       IF pending = None THEN result_data.val
                       ELSE Caught(result_data.val, pending.val)),
              Append(events, "stopped"))

\* shutting the tool server down raises: that exception replaces a pending one
ServerStopFails ==
    /\ pc = "aexit"
    /\ Record(ResultOf(test_cases[idx + 1], Caught(result_data.val, Fault(env.fault_text))),
              Append(events, "stop fault"))

\* OSError of a failed open or write
WriteError == [type |-> "OSError", text |-> "write error"]

\* the timestamped file save_results writes: the name is the clock's second, so
\* within the second of the last save it is that save's file, written again
StampedFile(content) ==
    [some |-> TRUE, val |-> content, by |-> runs,
     replaced |-> IF same_second /\ stamped.some THEN stamped.by ELSE 0]

\* save_results returns: both files hold the log
save_results ==
    /\ stamped' = StampedFile(results)
    /\ latest_results' = Some(results)
    /\ same_second' = TRUE

\* an exception leaves run_evaluation: its locals are gone
Raises(e) ==
    /\ pc' = "raised"
    /\ exc' = Some(e)
    /\ test_cases' = <<>>
    /\ idx' = 0
    /\ summary' = None

\* save_results raises: its first open() fails, so no file is touched
save_results_raises ==
    /\ Raises(WriteError)
    /\ UNCHANGED <<stamped, same_second, latest_results>>

\* mutant of SaveIntermediate: the file is left as it was
SaveIntermediate_Skip ==
    /\ pc = "save"
    /\ pc' = "sleep"
    /\ UNCHANGED <<direct_vars, request, exc, test_cases, idx, results, hist, events,
                   result_data, pending, latest_results, summary, latest_summary, runs,
                   stamped, same_second>>

\* save_results inside the loop: both files are rewritten with the log
SaveIntermediate ==
    /\ pc = "save"
    /\ pc' = "sleep"
    /\ save_results
    /\ UNCHANGED <<direct_vars, request, exc, test_cases, idx, results, hist, events,
                   result_data, pending, summary, latest_summary, runs>>

\* save_results inside the loop raises: nothing around the call catches it, so
\* it leaves run_evaluation
SaveIntermediateFails ==
    /\ pc = "save"
    /\ save_results_raises
    /\ UNCHANGED <<direct_vars, request, results, hist, events, result_data, pending,
                   latest_summary, runs>>

\* await asyncio.sleep(1) ends, a second or more later: next iteration, or the
\* loop is over
Sleep ==
    /\ pc = "sleep"
    /\ idx' = idx + 1
    /\ pc' = IF idx + 1 < Len(test_cases) THEN "invoke" ELSE "summarize"
    /\ same_second' = FALSE
    /\ UNCHANGED <<direct_vars, request, exc, test_cases, results, hist, events,
                   result_data, pending, latest_results, summary, latest_summary, runs,
                   stamped>>

\* mutant of GenerateSummary: the summary is saved without the final
\* save_results before it
GenerateSummary_SkipsFinalSave ==
    /\ pc = "summarize"
    /\ pc' = "save summary"
    /\ summary' = Some(generate_summary(results))
    /\ UNCHANGED <<direct_vars, request, exc, test_cases, idx, results, hist, events,
                   result_data, pending, latest_results, latest_summary, runs, stamped,
                   same_second>>

\* summary = self.generate_summary()
GenerateSummary ==
    /\ pc = "summarize"
    /\ pc' = "final save"
    /\ summary' = Some(generate_summary(results))
    /\ UNCHANGED <<direct_vars, request, exc, test_cases, idx, results, hist, events,
                   result_data, pending, latest_results, latest_summary, runs, stamped,
                   same_second>>

\* the save_results after the loop
SaveFinal ==
    /\ pc = "final save"
    /\ pc' = "save summary"
    /\ save_results
    /\ UNCHANGED <<direct_vars, request, exc, test_cases, idx, results, hist, events,
                   result_data, pending, summary, latest_summary, runs>>

\* the save_results after the loop raises
SaveFinalFails ==
    /\ pc = "final save"
    /\ save_results_raises
    /\ UNCHANGED <<direct_vars, request, results, hist, events, result_data, pending,
                   latest_summary, runs>>

\* save_summary(summary); return summary
SaveSummary ==
    /\ pc = "save summary"
    /\ pc' = "done"
    /\ latest_summary' = summary
    /\ UNCHANGED <<direct_vars, request, exc, test_cases, idx, results, hist, events,
                   result_data, pending, latest_results, summary, runs, stamped,
                   same_second>>

\* save_summary raises at its first open(): the summary is not returned
SaveSummaryFails ==
    /\ pc = "save summary"
    /\ Raises(WriteError)
    /\ UNCHANGED <<direct_vars, request, results, hist, events, result_data, pending,
                   latest_results, latest_summary, runs, stamped, same_second>>

Next ==
    \/ \E req \in EvalRequests : RunEvaluation(req)
    \/ QueryRaises
    \/ QueryCalled
    \/ ServerStarted
    \/ ServerStartFails
    \/ AgentCompletes
    \/ AgentTimesOut
    \/ AgentFails
    \/ ServerStopped
    \/ ServerStopFails
    \/ SaveIntermediate
    \/ SaveIntermediateFails
    \/ Sleep
    \/ GenerateSummary
    \/ SaveFinal
    \/ SaveFinalFails
    \/ SaveSummary
    \/ SaveSummaryFails

Spec == Init /\ [][Next]_vars

\* What the code's scheduling guarantees.  A call of query_datasource is made
\* once the loop reaches it; asyncio.wait_for ends the agent run by the 60th
\* second; file writes, the pause and generate_summary take their step.
\* Nothing bounds the wait for MCPServerStdio to start (__aenter__) or to shut
\* down (__aexit__): both lie outside wait_for, so no fairness is stated for
\* ServerStarted, ServerStartFails, ServerStopped and ServerStopFails.  When
\* run_evaluation is called is the caller's choice.
\* The steps below are enabled at different positions of run_evaluation, so
\* weak fairness of their disjunction is weak fairness of each.
Progress ==
    \/ QueryRaises \/ QueryCalled
    \/ AgentTimesOut \/ AgentFails \/ AgentCompletes
    \/ SaveIntermediate \/ SaveIntermediateFails
    \/ Sleep
    \/ GenerateSummary
    \/ SaveFinal \/ SaveFinalFails
    \/ SaveSummary \/ SaveSummaryFails

Fairness == WF_vars(Progress)

FairSpec == Init /\ [][Next]_vars /\ Fairness

(***************************************************************************)
(* What the loader contract says, stated over the inputs and the disk      *)
(* without the loader's own operators.                                     *)
(***************************************************************************)
Elements(lst) == {lst[i] : i \in DOMAIN lst}

\* the candidate file that wins: the first of test_files that exists
ExistingIndexes == {k \in DOMAIN test_files : disk[test_files[k]].exists}
FirstExisting == CHOOSE k \in ExistingIndexes : \A j \in ExistingIndexes : k <= j
WinningData == IF ExistingIndexes = {} THEN <<>> ELSE disk[test_files[FirstExisting]].data

\* the records of the winning file that pass test P, as test cases, in file order
Selected(P(_)) ==
    LET items == SelectSeq(WinningData, P)
    IN  [i \in 1..Len(items) |-> TestCase(items[i])]

\* requested datasets and admitted difficulties, an omitted argument meaning all
RequestedIfOmitted(a) ==
    IF a.databases = None THEN SUPPORTED_DATABASES ELSE Elements(a.databases.val)
AdmitsIfOmitted(a, diff) ==
    a.difficulty_filter = None \/ InList(diff, a.difficulty_filter.val)

\* the same, an omitted or empty argument meaning all
RequestedIfFalsy(a) ==
    IF TruthyList(a.databases) THEN Elements(a.databases.val) ELSE SUPPORTED_DATABASES
AdmitsIfFalsy(a, diff) ==
    ~TruthyList(a.difficulty_filter) \/ InList(diff, a.difficulty_filter.val)

Returned == ld_out # NoCall /\ ld_out.raised = ""

\* sum of f[x] over x in S
RECURSIVE SumOver(_, _)
SumOver(S, f) ==
    IF S = {} THEN 0
    ELSE LET x == CHOOSE y \in S : TRUE IN f[x] + SumOver(S \ {x}, f)

Min(a, b) == IF a < b THEN a ELSE b

(***************************************************************************)
(* Claims about load_test_cases, checked under SpecLoad.                   *)
(***************************************************************************)
\* matching records of dataset d: those of the winning file with that dataset
\* id that the difficulty filter admits
MatchingOf(d) == Selected(LAMBDA item : item.db_id = d /\ AdmitsIfFalsy(ld_args, item.difficulty))

\* how many of them the limit lets through (a limit that is absent lets all through)
AllowedOf(d) ==
    IF TruthyInt(ld_args.limit) THEN Min(ld_args.limit.val, Len(MatchingOf(d)))
    ELSE Len(MatchingOf(d))

\* C7: for every combination of requested datasets, difficulty filter and
\* per-dataset limit for which load_test_cases returns, the cases returned for
\* each requested dataset d are exactly the first min(limit, matching_count(d))
\* matching records of d in their original order (all of them without a limit),
\* and the total returned is the sum of those counts over the requested
\* datasets.  Stated for the limits of the configuration surface (absent or
\* positive).
C7_PerDatasetLimit ==
    (Returned /\ (ld_args.limit = None \/ ld_args.limit.val >= 1)) =>
        LET req == RequestedIfFalsy(ld_args)
        IN  /\ \A d \in req :
                  DbCases(ld_out.cases, d) = SubSeq(MatchingOf(d), 1, AllowedOf(d))
            /\ Len(ld_out.cases) = SumOver(req, [d \in req |-> AllowedOf(d)])

\* the same dataset named twice together with a limit
C7_DuplicateRequest ==
    /\ Returned
    /\ ld_args.databases = Some(<<"card_games", "card_games">>)
    /\ ld_args.limit = Some(1)
    /\ Len(ld_out.cases) = 2

\* C8: load_test_cases fails with the unsupported-databases error whenever a
\* requested dataset is outside SUPPORTED_DATABASES, whatever the difficulty
\* filter and the limit are, and it does so before any candidate corpus file
\* is probed or opened.
C8_InvalidDatasetFirst ==
    (/\ ld_out # NoCall
     /\ ld_args.databases.some
     /\ \E i \in DOMAIN ld_args.databases.val :
            ld_args.databases.val[i] \notin SUPPORTED_DATABASES)
    => /\ ld_out.raised = "Unsupported databases"
       /\ ld_out.probed = <<>>
       /\ ld_out.opened = <<>>

\* an unsupported dataset requested beside a supported one, with a filter and
\* a limit, on a disk whose first candidate exists
C8_Witness ==
    /\ ld_out # NoCall
    /\ ld_args.databases = Some(<<"card_games", "toxicology">>)
    /\ ld_args.difficulty_filter = Some(<<"simple">>)
    /\ ld_args.limit = Some(1)
    /\ disk[test_files[1]].exists
    /\ ld_out.raised = "Unsupported databases"

\* C9 as claimed: without a limit, load_test_cases returns exactly the records
\* of the corpus file whose dataset id is in the requested set and whose
\* difficulty is in the difficulty filter (every dataset, every difficulty, when
\* the argument is omitted), each once and in corpus order.
C9_FilterAsClaimed ==
    (Returned /\ ld_args.limit = None) =>
        ld_out.cases = Selected(LAMBDA item :
                          /\ item.db_id \in RequestedIfOmitted(ld_args)
                          /\ AdmitsIfOmitted(ld_args, item.difficulty))

\* C9 amended: the same, an empty databases list or an empty difficulty filter
\* counting as an omitted one.
C9_FilterNoLimit ==
    (Returned /\ ld_args.limit = None) =>
        ld_out.cases = Selected(LAMBDA item :
                          /\ item.db_id \in RequestedIfFalsy(ld_args)
                          /\ AdmitsIfFalsy(ld_args, item.difficulty))

\* the example of the specification: one dataset and difficulty simple select
\* the two simple cases of that dataset, in corpus order, out of a corpus that
\* holds other difficulties and other datasets
C9_Witness ==
    /\ Returned
    /\ ld_args.limit = None
    /\ ld_args.databases = Some(<<"california_schools">>)
    /\ ld_args.difficulty_filter = Some(<<"simple">>)
    /\ Len(ld_out.cases) = 2
    /\ ld_out.cases[1].question_id = 1
    /\ ld_out.cases[2].question_id = 6

\* C10: load_test_cases probes the candidates in the fixed order sqlite,
\* postgresql, mysql up to the first that exists, opens that one only and takes
\* every returned case from it; it raises when no candidate exists and when
\* that file yields no record, so it never returns an empty sequence.
C10_FirstExistingOnly ==
    (ld_out # NoCall /\ ld_out.raised # "Unsupported databases") =>
        /\ ld_out.probed =
              SubSeq(test_files, 1,
                     IF ExistingIndexes = {} THEN Len(test_files) ELSE FirstExisting)
        /\ ld_out.opened =
              IF ExistingIndexes = {} THEN <<>> ELSE <<test_files[FirstExisting]>>
        /\ ExistingIndexes = {} => ld_out.raised = "No test cases found"
        /\ ld_out.raised = "" =>
              /\ ld_out.cases # <<>>
              /\ \A i \in DOMAIN ld_out.cases :
                    \E j \in DOMAIN WinningData : ld_out.cases[i] = TestCase(WinningData[j])
        /\ ld_out.raised = "No test cases found" <=>
              Selected(LAMBDA item : /\ item.db_id \in RequestedIfFalsy(ld_args)
                                     /\ AdmitsIfFalsy(ld_args, item.difficulty)) = <<>>

\* the first existing candidate holds no record of the requested dataset while
\* a later candidate does: the call raises and the later file is not probed
C10_Witness ==
    /\ ld_out # NoCall
    /\ ~disk[test_files[1]].exists
    /\ disk[test_files[2]] = File(CorpusB)
    /\ disk[test_files[3]] = File(CorpusA)
    /\ ld_args.databases = Some(<<"california_schools">>)
    /\ ld_args.difficulty_filter = None
    /\ ld_out.raised = "No test cases found"
    /\ ld_out.probed = <<test_files[1], test_files[2]>>

(***************************************************************************)
(* What the extraction contract says, stated over the answer text without  *)
(* the extraction's own operators.                                         *)
(***************************************************************************)
\* the text that follows the first marker
AfterMarker(text) ==
    LET n == CHOOSE k \in DOMAIN text : text[k] = Marker /\ \A m \in 1..(k - 1) : text[m] # Marker
    IN  SubSeq(text, n + 1, Len(text))

\* positions of the opening braces of s, and the first of them
Opens(s) == {k \in DOMAIN s : s[k] = Open}
FirstOpen(s) == CHOOSE k \in Opens(s) : \A m \in Opens(s) : k <= m

\* nesting depth of s after position c, counted from position o
Depth(s, o, c) ==
    Cardinality({k \in o..c : s[k] = Open}) - Cardinality({k \in o..c : s[k] = Close})

\* positions at which the depth counted from the first opening brace is zero,
\* and the first of them: the brace matching the opening one
Closes(s) == {c \in DOMAIN s : c > FirstOpen(s) /\ Depth(s, FirstOpen(s), c) = 0}
MatchingClose(s) == CHOOSE c \in Closes(s) : \A m \in Closes(s) : c <= m

\* s has an opening brace and it is matched
Balanced(s) == Opens(s) # {} /\ Closes(s) # {}

\* the brace-matched substring of s
Matched(s) == SubSeq(s, FirstOpen(s), MatchingClose(s))

\* only whitespace stands before the first opening brace of s
OnlySpaceBefore(s) == \A k \in 1..(FirstOpen(s) - 1) : s[k] = Space

\* no brace stands before the first opening brace of s
NoBraceBefore(s) == \A k \in 1..(FirstOpen(s) - 1) : s[k] # Close

\* the objects of the model by nesting depth, and the text of an object
\* written without whitespace
RECURSIVE ObjectOfDepth(_)
ObjectOfDepth(n) ==
    IF n = 0 THEN <<>> ELSE <<[key |-> Key, value |-> ObjectOfDepth(n - 1)]>>
RECURSIVE Written(_)
Written(obj) ==
    IF obj = <<>> THEN <<Open, Close>>
    ELSE <<Open, Key>> \o Written(obj[1].value) \o <<Close>>

\* s without its whitespace
Unspaced(s) == SelectSeq(s, LAMBDA ch : ch # Space)

\* s is the text of an object
IsObjectText(s) == \E n \in 0..Len(s) : Written(ObjectOfDepth(n)) = Unspaced(s)

(***************************************************************************)
(* Claims about the payload extraction, checked under SpecExtract.         *)
(***************************************************************************)
\* C13: when the marker is followed by an object, the extracted substring ends
\* at the closing brace where the nesting depth first returns to zero, the
\* brace matching the opening one, and when that substring is the text of an
\* object the payload is that whole object: written out, it is the substring.
C13_MatchingBrace ==
    (/\ ex_out.done
     /\ HasMarker(ex_text)
     /\ Balanced(AfterMarker(ex_text))
     /\ OnlySpaceBefore(AfterMarker(ex_text)))
    => /\ ex_out.vds_json_str = Some(Matched(AfterMarker(ex_text)))
       /\ IsObjectText(Matched(AfterMarker(ex_text))) =>
             /\ ex_out.vds_query.some
             /\ ex_out.vds_query.type = "dict"
             /\ Written(ex_out.vds_query.val) = Unspaced(Matched(AfterMarker(ex_text)))

\* an object nested in an object, text after it: the payload has the inner
\* object as the value of its key
C13_Witness ==
    /\ ex_out.done
    /\ ex_text = <<Marker, Open, Key, Open, Close, Close>>
    /\ ex_out.vds_json_str = Some(<<Open, Key, Open, Close, Close>>)
    /\ ex_out.vds_query = Dict(<<[key |-> Key, value |-> <<>>]>>)

\* C14: no payload and no error, the success flag and the error field being
\* what they are without a marker, when the text holds the marker but no
\* opening brace after it, and when the braces after the marker are unbalanced
\* so that the depth never returns to zero.
C14_NothingExtracted ==
    (/\ ex_out.done
     /\ HasMarker(ex_text)
     /\ ~Balanced(AfterMarker(ex_text)))
    => /\ ex_out.vds_query = None
       /\ Completed(NewResultData, ex_text).success
       /\ Completed(NewResultData, ex_text).error = None
       /\ Completed(NewResultData, ex_text).vds_query = None

\* an object is opened twice after the marker and closed once
C14_Witness ==
    /\ ex_out.done
    /\ ex_text = <<Marker, Space, Open, Key, Open, Close>>
    /\ ex_out.vds_query = None

\* C15: the scan starts from the first opening brace that occurs after the
\* marker: when text without a brace stands between the marker and a
\* brace-balanced object, that object is still extracted and parsed.
C15_ScansFromFirstBrace ==
    (/\ ex_out.done
     /\ HasMarker(ex_text)
     /\ Balanced(AfterMarker(ex_text))
     /\ NoBraceBefore(AfterMarker(ex_text)))
    => /\ ex_out.vds_json_str = Some(Matched(AfterMarker(ex_text)))
       /\ IsObjectText(Matched(AfterMarker(ex_text))) =>
             /\ ex_out.vds_query.some
             /\ ex_out.vds_query.type = "dict"

\* a word stands between the marker and an object: nothing is extracted
C15_Witness ==
    /\ ex_out.done
    /\ ex_text = <<Marker, Space, Key, Space, Open, Close>>
    /\ ex_out.vds_json_str = None
    /\ ex_out.vds_query = None

(***************************************************************************)
(* Claims about run_evaluation, checked under Spec.                        *)
(***************************************************************************)
\* run_evaluation is between its load step and its return
InRun == pc \notin {"idle", "raised"}

\* an invocation is in flight
Invoking == pc \in {"invoke", "aenter", "run", "aexit"}

\* the invocation met a fault or the timeout somewhere
Faulted(h) ==
    \E n \in DOMAIN h : h[n] \in {"raised", "start fault", "run fault", "timeout", "stop fault"}

\* the agent run timed out and the tool server was then shut down normally
TimedOut(h) == h = <<"called", "started", "timeout", "stopped">>

\* C1: when the agent invocation of a test case exceeds its timeout, the
\* outcome recorded for that case has status error and the timeout message.
C1_TimeoutIsError ==
    \A k \in DOMAIN results :
        TimedOut(hist[k]) =>
            /\ results[k].status = "error"
            /\ results[k].error = Some(TimeoutMessage)

\* a run in which the first case timed out: it is recorded as failed with the
\* timeout message, and the second case was still invoked and recorded
C1_Witness ==
    /\ pc = "done"
    /\ Len(results) = 2
    /\ TimedOut(hist[1])
    /\ results[1].status = "failed"
    /\ results[1].error = Some(TimeoutMessage)

\* C2: a fault raised by the query_datasource call becomes an outcome with
\* status error carrying the fault text; the loop goes on to persist, pause and
\* invoke the next case, and no such fault ever leaves run_evaluation.
C2_FaultIsolated ==
    /\ [](\A k \in DOMAIN results :
             hist[k] = <<"raised">> =>
                 /\ results[k].status = "error"
                 /\ results[k].mcp_result = None
                 /\ results[k].error.some
                 /\ results[k].error.val \in FaultTexts)
    /\ [](exc.some => exc.val.text \notin FaultTexts)
    /\ [][(pc = "invoke" /\ hist' = Append(hist, <<"raised">>)) =>
              /\ pc' = IF request.save_intermediate THEN "save" ELSE "sleep"
              /\ Len(results') = idx + 1
              /\ results'[idx + 1].test_case = to_dict(test_cases[idx + 1])]_vars
    /\ [][(pc = "sleep" /\ pc' # "sleep") =>
              /\ idx' = idx + 1
              /\ pc' = IF idx' < Len(test_cases) THEN "invoke" ELSE "summarize"]_vars

\* the first case faulted, the second was still invoked and the run returned
C2_Witness ==
    /\ pc = "done"
    /\ Len(results) = 2
    /\ hist[1] = <<"raised">>
    /\ results[1].status = "error"
    /\ hist[2] = <<"called", "started", "completed", "stopped">>

\* C3: the status of every recorded outcome classifies its invocation: success
\* exactly when it completed and signalled success, failed exactly when it
\* completed without fault or timeout but signalled non-success, error exactly
\* when a fault was raised (by the call, the agent run or the tool server) or
\* the timeout expired.
C3_StatusClassifies ==
    \A k \in DOMAIN results :
        LET signalled == results[k].mcp_result.some /\ results[k].mcp_result.val.success
        IN  /\ results[k].status = "error" <=> Faulted(hist[k])
            /\ results[k].status = "success" <=> (~Faulted(hist[k]) /\ signalled)
            /\ results[k].status = "failed" <=> (~Faulted(hist[k]) /\ ~signalled)

\* the tool server failed to start for the first case, recorded as failed; it
\* failed to shut down after the completed run of the second, recorded as success
C3_Witness ==
    /\ Len(results) = 2
    /\ hist[1] = <<"called", "start fault">>
    /\ results[1].status = "failed"
    /\ hist[2] = <<"called", "started", "completed", "stop fault">>
    /\ results[2].status = "success"

\* C4: during a run the outcome log is the image of a prefix of test_cases,
\* position by position; it grows only by appending one outcome at a time; at
\* the return of run_evaluation it has one outcome per test case.
C4_LogIsCorpusPrefix ==
    /\ [](InRun =>
             /\ Len(results) <= Len(test_cases)
             /\ \A k \in DOMAIN results : results[k].test_case = to_dict(test_cases[k])
             /\ pc = "done" => Len(results) = Len(test_cases))
    /\ [][(InRun /\ runs' = runs) =>
              \/ results' = results
              \/ /\ Len(results') = Len(results) + 1
                 /\ SubSeq(results', 1, Len(results)) = results]_vars

\* a finished run over two cases of different datasets
C4_Witness ==
    /\ pc = "done"
    /\ Len(test_cases) = 2
    /\ results[1].test_case.question_id = 1
    /\ results[2].test_case.question_id = 2

\* the latest results file holds exactly the current log
LatestIsLog == latest_results = Some(results)

\* C5 as claimed: with save_intermediate, whenever the orchestrator is pausing
\* or invoking case k+1, latest_results.json holds k records, the first k
\* outcomes of this run (a file not yet written holding none).
C5_LatestAsClaimed ==
    (request.save_intermediate /\ (pc = "sleep" \/ Invoking)) =>
        IF results = <<>> THEN latest_results \in {None, Some(<<>>)} ELSE LatestIsLog

\* C5 amended: the same once the first case of the run has been processed
\* (k >= 1); until then the file is whatever an earlier run left.
C5_LatestAfterEachCase ==
    (request.save_intermediate /\ (pc = "sleep" \/ Invoking) /\ results # <<>>) =>
        LatestIsLog

\* the second case is being invoked and the file holds the first outcome only
C5_Witness ==
    /\ request.save_intermediate
    /\ pc = "run"
    /\ Len(results) = 1
    /\ Len(test_cases) = 2
    /\ LatestIsLog

Unparsable(r) ==
    /\ r.mcp_result.some
    /\ r.mcp_result.val.data.some
    /\ HasMarker(r.mcp_result.val.data.val)
    /\ Balanced(AfterMarker(r.mcp_result.val.data.val))
    /\ OnlySpaceBefore(AfterMarker(r.mcp_result.val.data.val))
    /\ ~IsObjectText(Matched(AfterMarker(r.mcp_result.val.data.val)))

\* C16: when the brace-matched substring cannot be parsed, the payload field
\* of the outcome is a text that ends with that raw substring, after a tag, and
\* the status is success or failed by the invocation's success signal alone.
C16_RawSubstringKept ==
    \A k \in DOMAIN results :
        Unparsable(results[k]) =>
            LET raw == Matched(AfterMarker(results[k].mcp_result.val.data.val))
                got == results[k].vds_query
            IN  /\ got.some
                /\ got.type = "str"
                /\ Len(got.val) > Len(raw)
                /\ SubSeq(got.val, Len(got.val) - Len(raw) + 1, Len(got.val)) = raw
                /\ results[k].status =
                      IF results[k].mcp_result.val.success THEN "success" ELSE "failed"

\* an answer whose payload does not parse: the outcome is a success, and its
\* payload field holds the decoder's message in place of the substring
C16_Witness ==
    /\ Len(results) >= 1
    /\ Unparsable(results[1])
    /\ results[1].status = "success"
    /\ results[1].mcp_result.val.vds_query = ParseErrorStr(2)
    /\ results[1].vds_query = ParseErrorStr(2)

\* the load step of a run_evaluation call has succeeded and its loop begins
LoopBegins == pc = "invoke" /\ idx = 0

\* C11: every call of run_evaluation whose load step succeeds eventually
\* returns a summary whose total_tests is the number of cases loaded, however
\* the invocations fail, fault or hang: no invocation blocks the orchestrator
\* for ever.  Stated for the calls that no write error ends.
C11_AlwaysReturnsSummary ==
    LoopBegins ~>
        \/ pc = "done" /\ summary.some /\ summary.val.total_tests = Len(test_cases)
        \/ pc = "raised" /\ exc = Some(WriteError)

\* a run in which every invocation faulted or timed out returned its summary
C11_Witness ==
    /\ pc = "done"
    /\ Len(results) = 2
    /\ Faulted(hist[1])
    /\ Faulted(hist[2])
    /\ summary.some
    /\ summary.val.total_tests = Len(test_cases)
    /\ summary.val.successful = 0

\* a step that is the start of a run_evaluation call
CallStarts == runs' = runs + 1

\* load_test_cases fails for the arguments of the call that starts
LoadFails ==
    \A order \in SupportedOrders :
        load_test_cases(disk, request'.databases, request'.difficulty_filter,
                        request'.limit, order).raised # ""

\* C12: when load_test_cases fails inside run_evaluation, the exception that
\* leaves run_evaluation is the loader's, no agent invocation is made, no
\* results or summary file is written and the outcome log is what it was
\* before the call.
C12_LoadFailureLeavesNoTrace ==
    /\ [][(CallStarts /\ LoadFails) =>
              /\ pc' = "raised"
              /\ \E order \in SupportedOrders :
                    exc' = Some(Fault(load_test_cases(disk, request'.databases,
                                                      request'.difficulty_filter,
                                                      request'.limit, order).raised))
              /\ results' = results
              /\ hist' = hist
              /\ events' = <<>>
              /\ result_data' = None
              /\ latest_results' = latest_results
              /\ stamped' = stamped
              /\ latest_summary' = latest_summary]_vars
    /\ [](pc = "raised" => ~Invoking /\ events = <<>> /\ result_data = None)

\* a second call on the evaluator asks for a dataset the corpus has no record
\* of: the log and the files of the first call are as it left them
C12_Witness ==
    /\ pc = "raised"
    /\ runs = 2
    /\ exc = Some(Fault("No test cases found"))
    /\ Len(results) = 2
    /\ latest_results = Some(results)
    /\ latest_summary = Some(generate_summary(results))

\* C17: one invocation is in flight at most, that of the case after the
\* outcomes logged so far; an outcome is appended only by the invocation in
\* flight; the append is followed by the save when save_intermediate is set and
\* then by the pause; the next invocation starts only from the end of the
\* pause, with the outcome logged, persisted and a second or more gone by.
C17_InvokeAppendPersistPause ==
    /\ [](/\ Invoking => (Len(results) = idx /\ idx < Len(test_cases))
          /\ ~Invoking => (events = <<>> /\ result_data = None /\ pending = None)
          /\ pc \in {"save", "sleep"} => Len(results) = idx + 1)
    /\ [][/\ (Len(results') > Len(results)) =>
                /\ Invoking
                /\ pc' = IF request.save_intermediate THEN "save" ELSE "sleep"
          /\ (pc = "save" /\ pc' # "save") =>
                \/ pc' = "sleep" /\ latest_results' = Some(results)
                \/ pc' = "raised"
          /\ (pc' = "invoke" /\ pc # "invoke") =>
                \/ CallStarts /\ idx' = 0 /\ results' = <<>>
                \/ /\ pc = "sleep"
                   /\ idx' = idx + 1
                   /\ Len(results) = idx'
                   /\ request.save_intermediate => latest_results = Some(results)
                   /\ ~same_second']_vars

\* the second case is about to be invoked: the first outcome is logged and
\* persisted and the pause is over
C17_Witness ==
    /\ pc = "invoke"
    /\ idx = 1
    /\ Len(results) = 1
    /\ request.save_intermediate
    /\ latest_results = Some(results)
    /\ ~same_second

\* a step in which save_results returns
Saved == pc \in {"save", "final save"} /\ pc' \in {"sleep", "save summary"}

\* C18: every call of save_results writes the complete log to the timestamped
\* file and to the latest file, and the timestamped file it writes is never
\* one that an earlier run wrote: a save replaces no file, or one of its own run.
C18_RunsUseDistinctFiles ==
    /\ [][Saved =>
              /\ stamped'.some
              /\ stamped'.val = results
              /\ stamped'.by = runs
              /\ latest_results' = Some(results)]_vars
    /\ [](stamped.some => stamped.replaced \in {0, stamped.by})

\* the first save of the second run came within the second of the final save
\* of the first run: the first run's timestamped file now holds the second
\* run's first outcome
C18_Witness ==
    /\ runs = 2
    /\ pc = "sleep"
    /\ stamped.some
    /\ stamped.by = 2
    /\ stamped.replaced = 1
    /\ Len(stamped.val) = 1
    /\ same_second

\* C19: a write error raised by the save_results call inside the loop does
\* not end the run: whether that save succeeds or fails, the run goes on to the
\* pause, and so to the remaining cases and to the summary.
C19_WriteErrorTolerated ==
    [][(pc = "save" /\ pc' # "save") => (pc' = "sleep" /\ exc' = None)]_vars

\* the save after the first of two cases failed: the error has left
\* run_evaluation, the second case was never invoked, no summary was made
C19_Witness ==
    /\ pc = "raised"
    /\ exc = Some(WriteError)
    /\ request.databases = Some(<<"california_schools", "card_games">>)
    /\ request.save_intermediate
    /\ runs = 1
    /\ Len(results) = 1
    /\ summary = None
    /\ latest_summary = None

\* C20: every recorded outcome whose status is not success has an error
\* message, and that message is not the empty string.
C20_ErrorMessagePopulated ==
    \A k \in DOMAIN results :
        results[k].status # "success" =>
            /\ results[k].error.some
            /\ results[k].error.val # ""

\* faults whose str() is empty: one raised by the query_datasource call,
\* recorded as error, one caught inside it, recorded as failed, both with an
\* empty error message
C20_Witness ==
    /\ Len(results) = 2
    /\ hist[1] = <<"raised">>
    /\ results[1].status = "error"
    /\ results[1].error = Some("")
    /\ hist[2] = <<"called", "start fault">>
    /\ results[2].status = "failed"
    /\ results[2].error = Some("")

\* a step in which save_summary returns
SummarySaved == pc = "save summary" /\ pc' = "done"

\* C21: in a call of run_evaluation the summary is computed once, from a log
\* that holds an outcome for every case of the filtered corpus, and is not
\* changed afterwards; latest_summary.json is written only after the final
\* save of this run has written the complete log, so that whenever a run has
\* written latest_summary.json, its total_tests is the number of records that
\* run left in latest_results.json.
C21_SummaryAfterFullLog ==
    /\ [](summary.some =>
            /\ pc \in {"final save", "save summary", "done"}
            /\ Len(results) = Len(test_cases)
            /\ \A k \in DOMAIN results : results[k].test_case = to_dict(test_cases[k])
            /\ summary.val.total_tests = Len(test_cases))
    /\ [](pc \in {"save summary", "done"} =>
            /\ latest_results = Some(results)
            /\ stamped.some /\ stamped.by = runs /\ stamped.val = results)
    /\ [](pc = "done" =>
            /\ latest_summary = summary
            /\ latest_summary.val.total_tests = Len(latest_results.val))
    /\ [][/\ (summary'.some /\ summary' # summary) => (summary = None /\ pc = "summarize")
          /\ (latest_summary' # latest_summary) => SummarySaved
          /\ SummarySaved =>
                /\ latest_summary' = summary
                /\ latest_results' = latest_results]_vars

\* a run without intermediate saves has returned: its two outcomes reached
\* latest_results.json by the final save alone, and latest_summary.json
\* counts two tests
C21_Witness ==
    /\ pc = "done"
    /\ ~request.save_intermediate
    /\ Len(test_cases) = 2
    /\ latest_summary = summary
    /\ latest_summary.val.total_tests = 2
    /\ Len(latest_results.val) = 2
    /\ stamped.by = runs

\* C22: every result query_datasource returned has its error set exactly when
\* its success flag is false, and no recorded outcome has status success
\* together with an error message.
C22_ErrorIffNotSuccess ==
    \A k \in DOMAIN results :
        /\ results[k].mcp_result.some =>
              (results[k].mcp_result.val.error.some <=> ~results[k].mcp_result.val.success)
        /\ results[k].status = "success" => results[k].error = None

\* the agent run of the first case completed, then shutting the tool server
\* down raised: the result returned has success true, the answer as data and
\* the fault's message as error, and is recorded as success with that error
C22_Witness ==
    /\ Len(results) = 1
    /\ hist[1] = <<"called", "started", "completed", "stop fault">>
    /\ results[1].mcp_result.val.success
    /\ results[1].mcp_result.val.data = Some(env.final_output)
    /\ results[1].mcp_result.val.error = Some("server fault")
    /\ results[1].status = "success"
    /\ results[1].error = Some("server fault")

\* log holds outcomes of the first cases of corpus, in order, and no others
OfCorpus(log, corpus) ==
    /\ Len(log) <= Len(corpus)
    /\ \A k \in DOMAIN log : log[k].test_case = to_dict(corpus[k])

\* C23: a call of run_evaluation whose load succeeds begins with an empty log
\* and no summary, whatever earlier calls on the same evaluator left; during
\* the call and at its return the log holds outcomes of this call's filtered
\* corpus only, the summary is that of this log, and every file the call has
\* written (the results files by save_results, latest_summary.json by
\* save_summary) holds outcomes of this corpus only.
C23_RunsStartEmpty ==
    /\ [][(CallStarts /\ pc' # "raised") =>
              (results' = <<>> /\ hist' = <<>> /\ summary' = None)]_vars
    /\ [](InRun =>
            /\ OfCorpus(results, test_cases)
            /\ summary.some => summary.val = generate_summary(results)
            /\ (stamped.some /\ stamped.by = runs) =>
                  /\ OfCorpus(stamped.val, test_cases)
                  /\ latest_results = Some(stamped.val)
                  /\ stamped.val = SubSeq(results, 1, Len(stamped.val))
            /\ pc = "done" =>
                  /\ latest_results = Some(results)
                  /\ latest_summary = Some(generate_summary(results))
                  /\ latest_summary.val.total_tests = Len(test_cases))

\* the second call on an evaluator is about to invoke its only case: its log
\* is empty though the first call logged and saved two outcomes, which
\* latest_results.json still holds
C23_Witness ==
    /\ runs = 2
    /\ pc = "invoke"
    /\ idx = 0
    /\ Len(test_cases) = 1
    /\ results = <<>>
    /\ summary = None
    /\ latest_results.some
    /\ Len(latest_results.val) = 2
    /\ latest_summary.some
    /\ latest_summary.val.total_tests = 2

====
